---- MODULE Spec2Model ----
(***************************************************************************)
(* nextBankBackend (src/server.js): an Express server over a MySQL pool.   *)
(* Every handler is an async function; each `await query(...)` is one      *)
(* step of the handler: the store executes the statement and the handler   *)
(* runs on to its next await or to its response.  The first step of a      *)
(* handler is the arrival of the request together with its first store     *)
(* call.  Handlers of different requests interleave at these steps.  Any   *)
(* store call may fail.                                                    *)
(***************************************************************************)
EXTENDS Integers, FiniteSets, Sequences, TLC

\* ---- bounds of the model ----
NumSlots == 2        \* requests in flight at the same time
MaxRequests == 3     \* requests received in one run
MaxFailures == 1     \* store calls that fail in one run
MaxTime == 1         \* the latest time the clock shows
SignificandBits == 3 \* bits a number keeps (a JavaScript number keeps 53)

\* ---- program constants ----
TenMinutes == 1      \* server.js:49, the unit of the clock

\* ---- request inputs ----
Usernames == {"alice"}
Passwords == {"pw1", "pw2"}
Otps == {"100000", "100001"}     \* two of the codes generateOtp can draw
Amounts == {1, 2 ^ SignificandBits}

Slots == 1..NumSlots
Ids == 1..(MaxRequests + 1)      \* auto-increment ids a run can hand out

VARIABLES
    users,      \* table users: rows [id, username, password]
    accounts,   \* table accounts: rows [user_id, balance]
    sessions,   \* table sessions: rows [user_id, otp, login_timestamp]
    nextId,     \* AUTO_INCREMENT counter of users.id
    now,        \* the clock
    reaper,     \* clearSessions: [pc, cutOff, due, cleared]; cleared is
                \* clear.affectedRows of the last pass, -1 when its DELETE threw
    req,        \* req[i]: the handler running in slot i, its locals and response
    started,    \* number of requests received
    nfail,      \* number of store calls that failed
    applied,    \* history: per user id, deposits minus withdrawals answered 200
    loggedOut,  \* history: per user id, OTPs ended by a logout since the last login
    lastDeposit \* history: the last deposit written, until a withdraw is written

dbvars == <<users, accounts, sessions, nextId>>
histvars == <<applied, loggedOut, lastDeposit>>
vars == <<users, accounts, sessions, nextId, now, reaper, req, started, nfail,
          applied, loggedOut, lastDeposit>>

\* ---- helper functions (server.js:34-45) ----

\* bcrypt.hash(password, 10): a one-way image of the plaintext
encryptPassword(password) == <<"bcrypt", password>>

\* bcrypt.compare(password, hash)
bcryptCompare(password, hash) == hash = encryptPassword(password)

\* the values Math.floor(100000 + Math.random() * 900000).toString() ranges over
generateOtp == Otps

\* new Date() and the store's CURRENT_TIMESTAMP: time passes between two
\* readings of the clock, and never runs backwards
Clock == now..MaxTime

\* ---- the store: SELECT results ----

NoUser == [id |-> 0, username |-> "", password |-> <<"", "">>]

\* SELECT * FROM users WHERE username = ?  (the first row, or undefined)
SelectUser(username) ==
    IF \E u \in users : u.username = username
    THEN CHOOSE u \in users : u.username = username
    ELSE NoUser

\* SELECT * FROM sessions WHERE user_id = ?
SessionsOf(uid) == {s \in sessions : s.user_id = uid}

\* SELECT * FROM sessions WHERE user_id = ? AND otp = ?
SessionsMatching(uid, otp) == {s \in sessions : s.user_id = uid /\ s.otp = otp}

\* SELECT balance FROM accounts WHERE user_id = ?
AccountsOf(uid) == {a \in accounts : a.user_id = uid}

\* ---- the store: schema constraints (spec section 6) ----

\* users.username is unique
UsernameFree(username) == ~\E u \in users : u.username = username

\* sessions.user_id and accounts.user_id are foreign keys to users.id
UserExists(uid) == \E u \in users : u.id = uid

\* sessions.user_id is unique
SessionSlotFree(uid) == SessionsOf(uid) = {}

\* accounts.user_id is unique
AccountSlotFree(uid) == AccountsOf(uid) = {}

\* ---- requests ----

NoDeposit == [user_id |-> 0, amount |-> 0, before |-> 0]

IdleReq == [op |-> "idle", pc |-> "idle", username |-> "", password |-> "",
            newPassword |-> "", otp |-> "", amount |-> 0,
            user |-> NoUser, genOtp |-> "", rows |-> 0, affected |-> 0,
            balance |-> 0, status |-> 0, message |-> "", result |-> 0,
            failed |-> FALSE, gPrev |-> {}, gStale |-> FALSE,
            gRound |-> NoDeposit, gOld |-> FALSE]

Finished(r) == r.pc \in {"done", "unhandled"}
InFlight(r) == r.op # "idle" /\ ~Finished(r)

\* a finished exchange leaves its slot before the server takes its next step
NoneFinished == \A i \in Slots : ~Finished(req[i])

\* res.status(status).json({message})
Respond(r, status, message) ==
    [r EXCEPT !.pc = "done", !.status = status, !.message = message]

\* a request arrives: the lowest free slot takes it
Arrives(i) ==
    /\ NoneFinished
    /\ req[i].op = "idle"
    /\ \A j \in Slots : j < i => req[j].op # "idle"
    /\ started < MaxRequests
    /\ started' = started + 1

\* the handler of slot i stands before the store call pc of operation op
At(i, op, pc) ==
    /\ req[i].op = op /\ req[i].pc = pc
    /\ NoneFinished
    /\ UNCHANGED started

\* history: the user id a username stands for
UidOf(username) == SelectUser(username).id

\* history: the OTPs that have a session row of the user
LiveOtps(username) == {s.otp : s \in SessionsOf(UidOf(username))}

\* the store call of handler r in slot i rejects inside the handler's try: the
\* catch answers
Caught(i, r, status, message) ==
    /\ nfail < MaxFailures
    /\ nfail' = nfail + 1
    /\ req' = [req EXCEPT ![i] = [Respond(r, status, message) EXCEPT !.failed = TRUE]]
    /\ UNCHANGED <<dbvars, now, reaper, histvars>>

\* the store call of handler r in slot i rejects outside any try: the async
\* handler's promise rejects.  Express 4 drops the rejection (no response is ever
\* sent); Express 5 forwards it to the default error handler, which answers 500.
Uncaught(i, r) ==
    /\ nfail < MaxFailures
    /\ nfail' = nfail + 1
    /\ \/ req' = [req EXCEPT ![i] = [r EXCEPT !.pc = "unhandled", !.failed = TRUE]]
       \/ req' = [req EXCEPT ![i] =
                    [Respond(r, 500, "Internal Server Error") EXCEPT !.failed = TRUE]]
    /\ UNCHANGED <<dbvars, now, reaper, histvars>>

\* handler r in slot i answers, the store unchanged
Answer(i, r, status, message) ==
    /\ req' = [req EXCEPT ![i] = Respond(r, status, message)]
    /\ UNCHANGED <<dbvars, now, reaper, nfail, histvars>>

\* handler r in slot i moves on to its next store call, the store unchanged
Goto(i, r, pc) ==
    /\ req' = [req EXCEPT ![i] = [r EXCEPT !.pc = pc]]
    /\ UNCHANGED <<dbvars, now, reaper, nfail, histvars>>

\* ---- POST /users (server.js:69-92) ----

\* lines 71-78: hash the password, INSERT INTO users (username, password)
RegisterInsertUser(i) ==
    \E username \in Usernames, password \in Passwords :
        LET r == [IdleReq EXCEPT !.op = "register", !.username = username,
                                 !.password = password] IN
        /\ Arrives(i)
        /\ \/ Caught(i, r, 500, "Failed to create user")
           \/ /\ ~UsernameFree(username)
              /\ Answer(i, r, 500, "Failed to create user")
           \/ /\ UsernameFree(username)
              /\ users' = users \cup {[id |-> nextId, username |-> username,
                                       password |-> encryptPassword(password)]}
              /\ nextId' = nextId + 1
              /\ req' = [req EXCEPT ![i] = [r EXCEPT !.pc = "selectUser"]]
              /\ UNCHANGED <<accounts, sessions, now, reaper, nfail, histvars>>

\* line 82: SELECT * FROM users WHERE username = ?; user.id throws on undefined
RegisterSelectUser(i) ==
    /\ At(i, "register", "selectUser")
    /\ LET user == SelectUser(req[i].username) IN
       \/ Caught(i, req[i], 500, "Failed to create user")
       \/ /\ user = NoUser
          /\ Answer(i, req[i], 500, "Failed to create user")
       \/ /\ user # NoUser
          /\ Goto(i, [req[i] EXCEPT !.user = user], "insertAccount")

\* line 85: INSERT INTO accounts (user_id, balance) VALUES (user.id, 0)
RegisterInsertAccount(i) ==
    /\ At(i, "register", "insertAccount")
    /\ \/ Caught(i, req[i], 500, "Failed to create user")
       \/ /\ ~(UserExists(req[i].user.id) /\ AccountSlotFree(req[i].user.id))
          /\ Answer(i, req[i], 500, "Failed to create user")
       \/ /\ UserExists(req[i].user.id) /\ AccountSlotFree(req[i].user.id)
          /\ accounts' = accounts \cup {[user_id |-> req[i].user.id, balance |-> 0]}
          /\ req' = [req EXCEPT ![i] = Respond(@, 201, "User created")]
          /\ UNCHANGED <<users, sessions, nextId, now, reaper, nfail, histvars>>

\* ---- POST /login (server.js:95-136) ----

\* login telling an unknown username apart from a wrong password
LoginSelectUserDistinct(i) ==
    \E username \in Usernames, password \in Passwords :
        LET r == [IdleReq EXCEPT !.op = "login", !.username = username,
                                 !.password = password,
                                 !.gPrev = LiveOtps(username)]
            user == SelectUser(username) IN
        /\ Arrives(i)
        /\ \/ Caught(i, r, 500, "An error occurred during login.")
           \/ /\ user = NoUser
              /\ Answer(i, r, 404, "User not found.")
           \/ /\ user # NoUser
              /\ ~bcryptCompare(password, user.password)
              /\ Answer(i, r, 401, "Login failed.")
           \/ /\ user # NoUser
              /\ bcryptCompare(password, user.password)
              /\ Goto(i, [r EXCEPT !.user = user], "selectSession")

\* lines 97-111: SELECT the user, 401 when absent, compare the password
LoginSelectUser(i) ==
    \E username \in Usernames, password \in Passwords :
        LET r == [IdleReq EXCEPT !.op = "login", !.username = username,
                                 !.password = password,
                                 !.gPrev = LiveOtps(username)]
            user == SelectUser(username) IN
        /\ Arrives(i)
        /\ \/ Caught(i, r, 500, "An error occurred during login.")
           \/ /\ user = NoUser
              /\ Answer(i, r, 401, "Login failed.")
           \/ /\ user # NoUser
              /\ ~bcryptCompare(password, user.password)
              /\ Answer(i, r, 401, "Login failed.")
           \/ /\ user # NoUser
              /\ bcryptCompare(password, user.password)
              /\ Goto(i, [r EXCEPT !.user = user], "selectSession")

\* lines 113-121: SELECT the existing session; without one, draw the OTP
LoginSelectSession(i) ==
    /\ At(i, "login", "selectSession")
    /\ \/ Caught(i, req[i], 500, "An error occurred during login.")
       \/ /\ SessionsOf(req[i].user.id) # {}
          /\ Goto(i, req[i], "deleteSession")
       \/ /\ SessionsOf(req[i].user.id) = {}
          /\ \E otp \in generateOtp :
                Goto(i, [req[i] EXCEPT !.genOtp = otp], "insertSession")

\* lines 117-121: DELETE FROM sessions WHERE user_id = ?, then draw the OTP
LoginDeleteSession(i) ==
    /\ At(i, "login", "deleteSession")
    /\ \/ Caught(i, req[i], 500, "An error occurred during login.")
       \/ /\ sessions' = sessions \ SessionsOf(req[i].user.id)
          /\ \E otp \in generateOtp :
                req' = [req EXCEPT ![i].pc = "insertSession", ![i].genOtp = otp]
          /\ UNCHANGED <<users, accounts, nextId, now, reaper, nfail, histvars>>

\* LoginInsertSession storing the request body's otp field instead of the code drawn
LoginInsertSessionWrongOtp(i) ==
    /\ At(i, "login", "insertSession")
    /\ LET uid == req[i].user.id IN
       \/ Caught(i, req[i], 500, "An error occurred during login.")
       \/ /\ ~(UserExists(uid) /\ SessionSlotFree(uid))
          /\ Answer(i, req[i], 500, "An error occurred during login.")
       \/ /\ UserExists(uid) /\ SessionSlotFree(uid)
          /\ \E t \in Clock :
                /\ now' = t
                /\ sessions' = sessions \cup {[user_id |-> uid, otp |-> req[i].otp,
                                               login_timestamp |-> t]}
          /\ req' = [req EXCEPT ![i] = Respond(@, 200, "")]
          /\ loggedOut' = [loggedOut EXCEPT ![uid] = {}]
          /\ UNCHANGED <<users, accounts, nextId, reaper, nfail, applied, lastDeposit>>

\* lines 125-127: INSERT INTO sessions (user_id, otp), the timestamp being the
\* column's default; answer 200 {otp}
LoginInsertSession(i) ==
    /\ At(i, "login", "insertSession")
    /\ LET uid == req[i].user.id IN
       \/ Caught(i, req[i], 500, "An error occurred during login.")
       \/ /\ ~(UserExists(uid) /\ SessionSlotFree(uid))
          /\ Answer(i, req[i], 500, "An error occurred during login.")
       \/ /\ UserExists(uid) /\ SessionSlotFree(uid)
          /\ \E t \in Clock :
                /\ now' = t
                /\ sessions' = sessions \cup {[user_id |-> uid, otp |-> req[i].genOtp,
                                               login_timestamp |-> t]}
          /\ req' = [j \in Slots |->
                       IF j = i THEN Respond(req[i], 200, "")
                       ELSE IF req[j].username = req[i].username
                            THEN [req[j] EXCEPT !.gStale = FALSE]
                       ELSE req[j]]
          /\ loggedOut' = [loggedOut EXCEPT ![uid] = {}]
          /\ UNCHANGED <<users, accounts, nextId, reaper, nfail, applied, lastDeposit>>

\* ---- PUT /update-password (server.js:139-169) ----

\* lines 141-159: SELECT the user outside any try, 404, compare, 401, hash
UpdatePasswordSelectUser(i) ==
    \E username \in Usernames, password \in Passwords, newPassword \in Passwords :
        LET r == [IdleReq EXCEPT !.op = "updatePassword", !.username = username,
                                 !.password = password, !.newPassword = newPassword]
            user == SelectUser(username) IN
        /\ Arrives(i)
        /\ \/ Uncaught(i, r)
           \/ /\ user = NoUser
              /\ Answer(i, r, 404, "User not found.")
           \/ /\ user # NoUser
              /\ ~bcryptCompare(password, user.password)
              /\ Answer(i, r, 401, "Invalid password")
           \/ /\ user # NoUser
              /\ bcryptCompare(password, user.password)
              /\ Goto(i, [r EXCEPT !.user = user], "updateUser")

\* lines 161-168: UPDATE users SET password = ? WHERE id = ?
UpdatePasswordUpdateUser(i) ==
    /\ At(i, "updatePassword", "updateUser")
    /\ \/ Caught(i, req[i], 500, "Failed to update password")
       \/ /\ users' = {IF u.id = req[i].user.id
                       THEN [u EXCEPT !.password = encryptPassword(req[i].newPassword)]
                       ELSE u : u \in users}
          /\ req' = [req EXCEPT ![i] = Respond(@, 200, "Password updated")]
          /\ UNCHANGED <<accounts, sessions, nextId, now, reaper, nfail, histvars>>

\* ---- DELETE /delete-user (server.js:172-202) ----

\* lines 174-189: SELECT the user outside any try, 404, compare, 401
DeleteUserSelectUser(i) ==
    \E username \in Usernames, password \in Passwords, otp \in Otps :
        LET r == [IdleReq EXCEPT !.op = "deleteUser", !.username = username,
                                 !.password = password, !.otp = otp]
            user == SelectUser(username) IN
        /\ Arrives(i)
        /\ \/ Uncaught(i, r)
           \/ /\ user = NoUser
              /\ Answer(i, r, 404, "User not found")
           \/ /\ user # NoUser
              /\ ~bcryptCompare(password, user.password)
              /\ Answer(i, r, 401, "Invalid password")
           \/ /\ user # NoUser
              /\ bcryptCompare(password, user.password)
              /\ Goto(i, [r EXCEPT !.user = user], "deleteSession")

\* line 192: DELETE FROM sessions WHERE user_id = ? AND otp = ?, outside any try;
\* endSession.affectedRows is never read
DeleteUserDeleteSession(i) ==
    /\ At(i, "deleteUser", "deleteSession")
    /\ LET hit == SessionsMatching(req[i].user.id, req[i].otp) IN
       \/ Uncaught(i, req[i])
       \/ /\ sessions' = sessions \ hit
          /\ req' = [req EXCEPT ![i].pc = "deleteUser", ![i].affected = Cardinality(hit)]
          /\ UNCHANGED <<users, accounts, nextId, now, reaper, nfail, histvars>>

\* ON DELETE CASCADE of sessions.user_id and accounts.user_id (spec sections 3, 6)
CascadeDelete(rows, gone) == {r \in rows : r.user_id \notin gone}

\* lines 194-201: DELETE FROM users WHERE username = ?
DeleteUserDeleteUser(i) ==
    /\ At(i, "deleteUser", "deleteUser")
    /\ LET gone == {u \in users : u.username = req[i].username} IN
       \/ Caught(i, req[i], 500, "Failed to delete user")
       \/ /\ users' = users \ gone
          /\ accounts' = CascadeDelete(accounts, {u.id : u \in gone})
          /\ sessions' = CascadeDelete(sessions, {u.id : u \in gone})
          /\ req' = [req EXCEPT ![i] = [Respond(@, 200, "User deleted")
                                          EXCEPT !.rows = Cardinality(gone)]]
          /\ UNCHANGED <<nextId, now, reaper, nfail, histvars>>

\* ---- DELETE /logout (server.js:205-225) ----

\* lines 207-215: SELECT the user outside any try, 404
LogoutSelectUser(i) ==
    \E username \in Usernames, otp \in Otps :
        LET r == [IdleReq EXCEPT !.op = "logout", !.username = username, !.otp = otp]
            user == SelectUser(username) IN
        /\ Arrives(i)
        /\ \/ Uncaught(i, r)
           \/ /\ user = NoUser
              /\ Answer(i, r, 404, "User not found or already logged out")
           \/ /\ user # NoUser
              /\ Goto(i, [r EXCEPT !.user = user], "deleteSession")

\* lines 217-224: DELETE FROM sessions WHERE user_id = ? AND otp = ?; the
\* result's affectedRows is never read
LogoutDeleteSession(i) ==
    /\ At(i, "logout", "deleteSession")
    /\ LET hit == SessionsMatching(req[i].user.id, req[i].otp) IN
       \/ Caught(i, req[i], 500, "Failed to log out")
       \/ /\ sessions' = sessions \ hit
          /\ req' = [req EXCEPT ![i] = [Respond(@, 200, "Logout successful")
                                          EXCEPT !.affected = Cardinality(hit)]]
          /\ loggedOut' = IF hit = {} THEN loggedOut
                          ELSE [loggedOut EXCEPT ![req[i].user.id] = @ \cup {req[i].otp}]
          /\ UNCHANGED <<users, accounts, nextId, now, reaper, nfail, applied, lastDeposit>>

\* ---- POST /me/account (server.js:228-254) ----

\* lines 230-237: SELECT the user outside any try, 404
GetBalanceSelectUser(i) ==
    \E username \in Usernames, otp \in Otps :
        LET r == [IdleReq EXCEPT !.op = "getBalance", !.username = username,
                                 !.otp = otp]
            user == SelectUser(username) IN
        /\ Arrives(i)
        /\ \/ Uncaught(i, r)
           \/ /\ user = NoUser
              /\ Answer(i, r, 404, "User not found or already logged out")
           \/ /\ user # NoUser
              /\ Goto(i, [r EXCEPT !.user = user], "selectSession")

\* `!validSession` of line 240: validSession is the array of rows query returns,
\* and an array, empty or not, is truthy
Not(rows) == FALSE

\* lines 239-243: SELECT * FROM sessions WHERE user_id = ? AND otp = ?, outside
\* any try; 404 when `!validSession`
GetBalanceSelectSession(i) ==
    /\ At(i, "getBalance", "selectSession")
    /\ LET validSession == SessionsMatching(req[i].user.id, req[i].otp)
           r == [req[i] EXCEPT !.rows = Cardinality(validSession)] IN
       \/ Uncaught(i, req[i])
       \/ IF Not(validSession)
          THEN Answer(i, r, 404, "Failed to get balance")
          ELSE Goto(i, r, "selectBalance")

\* lines 246-253: SELECT balance FROM accounts; result[0].balance throws when
\* there is no row; the catch answers 404
GetBalanceSelectBalance(i) ==
    /\ At(i, "getBalance", "selectBalance")
    /\ LET result == AccountsOf(req[i].user.id) IN
       \/ Caught(i, req[i], 404, "Failed to get balance")
       \/ /\ result = {}
          /\ Answer(i, req[i], 404, "Failed to get balance")
       \/ /\ result # {}
          /\ Answer(i, [req[i] EXCEPT !.result = (CHOOSE a \in result : TRUE).balance],
                    200, "")

\* ---- the ledger handlers ----

\* the distance between neighbouring numbers at magnitude m
RECURSIVE Ulp(_)
Ulp(m) == IF m < 2 ^ SignificandBits THEN 1 ELSE 2 * Ulp(m \div 2)

\* the number nearest to the magnitude m, ties to the even significand
RoundMagnitude(m) ==
    LET q == Ulp(m)
        lo == (m \div q) * q
    IN  IF 2 * (m - lo) < q THEN lo
        ELSE IF 2 * (m - lo) > q THEN lo + q
        ELSE IF (lo \div q) % 2 = 0 THEN lo ELSE lo + q

\* a JavaScript number: the value x rounded to the significand
Number(x) == IF x < 0 THEN 0 - RoundMagnitude(0 - x) ELSE RoundMagnitude(x)

\* parseFloat of a JSON number or of the text of a DECIMAL column
parseFloat(x) == Number(x)

\* balance + amount and balance - amount on JavaScript numbers (lines 277, 309)
Plus(x, y) == Number(x + y)
Minus(x, y) == Number(x - y)

\* history: one of the session rows is older than ten minutes now
Expired(rows) == \E s \in rows : s.login_timestamp < now - TenMinutes

\* history: the OTP a request presents was ended by a logout, and no login has
\* inserted a session for the user since
Stale(username, otp) ==
    UidOf(username) # 0 /\ otp \in loggedOut[UidOf(username)]

\* ---- POST /me/account/transaction/deposit (server.js:256-286) ----

\* lines 258-265: SELECT the user outside any try, 404
DepositSelectUser(i) ==
    \E username \in Usernames, otp \in Otps, amount \in Amounts :
        LET r == [IdleReq EXCEPT !.op = "deposit", !.username = username, !.otp = otp,
                                 !.amount = amount,
                                 !.gStale = Stale(username, otp)]
            user == SelectUser(username) IN
        /\ Arrives(i)
        /\ \/ Uncaught(i, r)
           \/ /\ user = NoUser
              /\ Answer(i, r, 404, "User not found or already logged out")
           \/ /\ user # NoUser
              /\ Goto(i, [r EXCEPT !.user = user], "selectSession")

\* DepositSelectSession testing `!validSessions` as line 240 does
DepositSelectSessionTruthy(i) ==
    /\ At(i, "deposit", "selectSession")
    /\ LET validSessions == SessionsMatching(req[i].user.id, req[i].otp)
           r == [req[i] EXCEPT !.rows = Cardinality(validSessions),
                               !.gOld = Expired(validSessions)] IN
       \/ Uncaught(i, req[i])
       \/ IF Not(validSessions)
          THEN Answer(i, r, 404, "Invalid session or OTP")
          ELSE Goto(i, r, "selectBalance")

\* DepositSelectSession accepting only a session younger than ten minutes
DepositSelectSessionFresh(i) ==
    /\ At(i, "deposit", "selectSession")
    /\ LET validSessions ==
               {s \in SessionsMatching(req[i].user.id, req[i].otp) :
                    ~(s.login_timestamp < now - TenMinutes)}
           r == [req[i] EXCEPT !.rows = Cardinality(validSessions),
                               !.gOld = Expired(validSessions)] IN
       \/ Uncaught(i, req[i])
       \/ IF Cardinality(validSessions) = 0
          THEN Answer(i, r, 404, "Invalid session or OTP")
          ELSE Goto(i, r, "selectBalance")

\* lines 267-271: SELECT the session outside any try, 404 when no row matches
DepositSelectSession(i) ==
    /\ At(i, "deposit", "selectSession")
    /\ LET validSessions == SessionsMatching(req[i].user.id, req[i].otp)
           r == [req[i] EXCEPT !.rows = Cardinality(validSessions),
                               !.gOld = Expired(validSessions)] IN
       \/ Uncaught(i, req[i])
       \/ IF Cardinality(validSessions) = 0
          THEN Answer(i, r, 404, "Invalid session or OTP")
          ELSE Goto(i, r, "selectBalance")

\* lines 273-275: SELECT balance; result[0].balance throws when there is no row
DepositSelectBalance(i) ==
    /\ At(i, "deposit", "selectBalance")
    /\ LET result == AccountsOf(req[i].user.id) IN
       \/ Caught(i, req[i], 500, "Failed to update balance")
       \/ /\ result = {}
          /\ Answer(i, req[i], 500, "Failed to update balance")
       \/ /\ result # {}
          /\ Goto(i, [req[i] EXCEPT
                        !.balance = parseFloat((CHOOSE a \in result : TRUE).balance)],
                  "updateBalance")

\* lines 277-281: UPDATE accounts SET balance = ? with the balance read at line
\* 274 plus parseFloat(amount); answer 200 {balance}
DepositUpdateBalance(i) ==
    /\ At(i, "deposit", "updateBalance")
    /\ LET newBalance == Plus(req[i].balance, parseFloat(req[i].amount)) IN
       \/ Caught(i, req[i], 500, "Failed to update balance")
       \/ /\ accounts' = {IF a.user_id = req[i].user.id
                          THEN [a EXCEPT !.balance = newBalance] ELSE a : a \in accounts}
          /\ req' = [req EXCEPT ![i] = [Respond(@, 200, "") EXCEPT !.result = newBalance]]
          /\ applied' = [applied EXCEPT ![req[i].user.id] = Plus(@, req[i].amount)]
          /\ lastDeposit' =
                IF AccountsOf(req[i].user.id) = {} THEN NoDeposit
                ELSE [user_id |-> req[i].user.id, amount |-> req[i].amount,
                      before |-> (CHOOSE a \in AccountsOf(req[i].user.id) : TRUE).balance]
          /\ UNCHANGED <<users, sessions, nextId, now, reaper, nfail, loggedOut>>

\* ---- POST /me/account/transaction/withdraw (server.js:288-318) ----

\* lines 290-297: SELECT the user outside any try, 404
WithdrawSelectUser(i) ==
    \E username \in Usernames, otp \in Otps, amount \in Amounts :
        LET r == [IdleReq EXCEPT !.op = "withdraw", !.username = username, !.otp = otp,
                                 !.amount = amount,
                                 !.gStale = Stale(username, otp)]
            user == SelectUser(username) IN
        /\ Arrives(i)
        /\ \/ Uncaught(i, r)
           \/ /\ user = NoUser
              /\ Answer(i, r, 404, "User not found or already logged out")
           \/ /\ user # NoUser
              /\ Goto(i, [r EXCEPT !.user = user], "selectSession")

\* WithdrawSelectSession testing `!validSessions` as line 240 does
WithdrawSelectSessionTruthy(i) ==
    /\ At(i, "withdraw", "selectSession")
    /\ LET validSessions == SessionsMatching(req[i].user.id, req[i].otp)
           r == [req[i] EXCEPT !.rows = Cardinality(validSessions),
                               !.gOld = Expired(validSessions)] IN
       \/ Uncaught(i, req[i])
       \/ IF Not(validSessions)
          THEN Answer(i, r, 404, "Invalid session or OTP")
          ELSE Goto(i, r, "selectBalance")

\* lines 299-303: SELECT the session outside any try, 404 when no row matches
WithdrawSelectSession(i) ==
    /\ At(i, "withdraw", "selectSession")
    /\ LET validSessions == SessionsMatching(req[i].user.id, req[i].otp)
           r == [req[i] EXCEPT !.rows = Cardinality(validSessions),
                               !.gOld = Expired(validSessions)] IN
       \/ Uncaught(i, req[i])
       \/ IF Cardinality(validSessions) = 0
          THEN Answer(i, r, 404, "Invalid session or OTP")
          ELSE Goto(i, r, "selectBalance")

\* lines 305-307: SELECT balance; result[0].balance throws when there is no row
WithdrawSelectBalance(i) ==
    /\ At(i, "withdraw", "selectBalance")
    /\ LET result == AccountsOf(req[i].user.id) IN
       \/ Caught(i, req[i], 500, "Failed to update balance")
       \/ /\ result = {}
          /\ Answer(i, req[i], 500, "Failed to update balance")
       \/ /\ result # {}
          /\ Goto(i, [req[i] EXCEPT
                        !.balance = parseFloat((CHOOSE a \in result : TRUE).balance),
                        !.gRound = IF /\ lastDeposit.user_id = req[i].user.id
                                      /\ lastDeposit.amount = req[i].amount
                                   THEN lastDeposit ELSE NoDeposit],
                  "updateBalance")

\* lines 309-313: UPDATE accounts SET balance = ? with the balance read at line
\* 306 minus parseFloat(amount); answer 200 {balance}
WithdrawUpdateBalance(i) ==
    /\ At(i, "withdraw", "updateBalance")
    /\ LET newBalance == Minus(req[i].balance, parseFloat(req[i].amount)) IN
       \/ Caught(i, req[i], 500, "Failed to update balance")
       \/ /\ accounts' = {IF a.user_id = req[i].user.id
                          THEN [a EXCEPT !.balance = newBalance] ELSE a : a \in accounts}
          /\ req' = [req EXCEPT ![i] =
                        [Respond(@, 200, "") EXCEPT
                            !.result = newBalance,
                            !.gRound = IF lastDeposit = @ THEN @ ELSE NoDeposit]]
          /\ applied' = [applied EXCEPT ![req[i].user.id] = Minus(@, req[i].amount)]
          /\ lastDeposit' = IF lastDeposit.user_id = req[i].user.id
                            THEN NoDeposit ELSE lastDeposit
          /\ UNCHANGED <<users, sessions, nextId, now, reaper, nfail, loggedOut>>

\* ---- clearSessions (server.js:48-61) ----

\* lines 49-50, 52: read the clock, compute the cutoff and send the DELETE.
\* The timer of line 57 fires no earlier than ten minutes after it was armed.
ClearSessionsStart ==
    /\ NoneFinished
    /\ reaper.pc = "timer"
    /\ \E t \in Clock :
        /\ t >= reaper.due
        /\ now' = t
        /\ reaper' = [pc |-> "delete", cutOff |-> t - TenMinutes, due |-> 0,
                      cleared |-> 0]
    /\ UNCHANGED <<dbvars, req, started, nfail, histvars>>

\* the rows DELETE FROM sessions WHERE login_timestamp < ? removes (line 52)
OlderThan(cutOff) == {s \in sessions : s.login_timestamp < cutOff}

\* clearSessions with an inclusive comparison in its DELETE
ClearSessionsDeleteInclusive ==
    /\ NoneFinished
    /\ reaper.pc = "delete"
    /\ \E t \in Clock :
        /\ now' = t
        /\ \/ /\ nfail < MaxFailures
              /\ nfail' = nfail + 1
              /\ UNCHANGED sessions
              /\ reaper' = [pc |-> "timer", cutOff |-> 0,
                            due |-> t + TenMinutes, cleared |-> 0 - 1]
           \/ /\ sessions' = {s \in sessions : s.login_timestamp > reaper.cutOff}
              /\ UNCHANGED nfail
              /\ reaper' = [pc |-> "timer", cutOff |-> 0,
                            due |-> t + TenMinutes,
                            cleared |-> Cardinality(sessions \ sessions')]
    /\ UNCHANGED <<users, accounts, nextId, req, started, histvars>>

\* clearSessions arming its next timer after the DELETE inside the try
ClearSessionsDeleteNoFinally ==
    /\ NoneFinished
    /\ reaper.pc = "delete"
    /\ \E t \in Clock :
        /\ now' = t
        /\ \/ /\ nfail < MaxFailures
              /\ nfail' = nfail + 1
              /\ UNCHANGED sessions
              /\ reaper' = [pc |-> "stopped", cutOff |-> 0,
                            due |-> 0, cleared |-> 0 - 1]
           \/ /\ sessions' = sessions \ OlderThan(reaper.cutOff)
              /\ UNCHANGED nfail
              /\ reaper' = [pc |-> "timer", cutOff |-> 0,
                            due |-> t + TenMinutes,
                            cleared |-> Cardinality(OlderThan(reaper.cutOff))]
    /\ UNCHANGED <<users, accounts, nextId, req, started, histvars>>

\* lines 52-58: DELETE FROM sessions WHERE login_timestamp < cutOff, with the
\* cutOff computed at line 50; clear.affectedRows is the number of rows removed.
\* Whether the DELETE succeeds or throws, the finally arms the next timer.
ClearSessionsDelete ==
    /\ NoneFinished
    /\ reaper.pc = "delete"
    /\ \E t \in Clock :
        /\ now' = t
        /\ \/ /\ nfail < MaxFailures
              /\ nfail' = nfail + 1
              /\ UNCHANGED sessions
              /\ reaper' = [pc |-> "timer", cutOff |-> 0,
                            due |-> t + TenMinutes, cleared |-> 0 - 1]
           \/ /\ sessions' = sessions \ OlderThan(reaper.cutOff)
              /\ UNCHANGED nfail
              /\ reaper' = [pc |-> "timer", cutOff |-> 0,
                            due |-> t + TenMinutes,
                            cleared |-> Cardinality(OlderThan(reaper.cutOff))]
    /\ UNCHANGED <<users, accounts, nextId, req, started, histvars>>

\* ---- the end of an exchange ----

\* the exchange of slot i is over: answered, or abandoned by the client
Retire(i) ==
    /\ Finished(req[i])
    /\ req' = [req EXCEPT ![i] = IdleReq]
    /\ UNCHANGED <<dbvars, now, reaper, started, nfail, histvars>>

\* ---- initial states: the server boots against a store of earlier runs ----

Alice == [id |-> 1, username |-> "alice", password |-> encryptPassword("pw1")]

InitStores ==
    { [users |-> {}, accounts |-> {}, sessions |-> {}, nextId |-> 1],
      [users |-> {Alice}, accounts |-> {[user_id |-> 1, balance |-> 0]},
       sessions |-> {}, nextId |-> 2],
      [users |-> {Alice}, accounts |-> {[user_id |-> 1, balance |-> 0]},
       sessions |-> {[user_id |-> 1, otp |-> "100000", login_timestamp |-> 0 - 1]},
       nextId |-> 2] }

\* line 61: the first clearSessions pass is started at boot
Init ==
    /\ \E db \in InitStores :
        /\ users = db.users
        /\ accounts = db.accounts
        /\ sessions = db.sessions
        /\ nextId = db.nextId
    /\ now = 0
    /\ reaper = [pc |-> "delete", cutOff |-> 0 - TenMinutes, due |-> 0,
                 cleared |-> 0]
    /\ req = [i \in Slots |-> IdleReq]
    /\ started = 0
    /\ nfail = 0
    /\ applied = [id \in Ids |-> 0]
    /\ loggedOut = [id \in Ids |-> {}]
    /\ lastDeposit = NoDeposit

Next ==
    \/ \E i \in Slots :
        \/ RegisterInsertUser(i) \/ RegisterSelectUser(i) \/ RegisterInsertAccount(i)
        \/ LoginSelectUser(i) \/ LoginSelectSession(i) \/ LoginDeleteSession(i)
        \/ LoginInsertSession(i)
        \/ UpdatePasswordSelectUser(i) \/ UpdatePasswordUpdateUser(i)
        \/ DeleteUserSelectUser(i) \/ DeleteUserDeleteSession(i)
        \/ DeleteUserDeleteUser(i)
        \/ LogoutSelectUser(i) \/ LogoutDeleteSession(i)
        \/ GetBalanceSelectUser(i) \/ GetBalanceSelectSession(i)
        \/ GetBalanceSelectBalance(i)
        \/ DepositSelectUser(i) \/ DepositSelectSession(i)
        \/ DepositSelectBalance(i) \/ DepositUpdateBalance(i)
        \/ WithdrawSelectUser(i) \/ WithdrawSelectSession(i)
        \/ WithdrawSelectBalance(i) \/ WithdrawUpdateBalance(i)
        \/ Retire(i)
    \/ ClearSessionsStart
    \/ ClearSessionsDelete

Spec == Init /\ [][Next]_vars

\* ---- the server running for ever ----

\* times this far back are older than every cutOff a pass can compute
LongAgo == 0 - TenMinutes - 1

Earlier(t) == IF t - 1 < LongAgo THEN LongAgo ELSE t - 1

\* time passes beyond the latest time the clock shows: the origin of the clock
\* moves on by one unit, and with it every stored time; the code compares
\* times only with each other (lines 50, 52, 57)
Rebase ==
    /\ now = MaxTime
    /\ now' = now - 1
    /\ sessions' = {[s EXCEPT !.login_timestamp = Earlier(@)] : s \in sessions}
    /\ reaper' = [reaper EXCEPT
                    !.cutOff = IF reaper.pc = "delete" THEN Earlier(@) ELSE @,
                    !.due = IF @ > 0 THEN @ - 1 ELSE 0]
    /\ UNCHANGED <<users, accounts, nextId, req, started, nfail, histvars>>

\* the steps that read the clock or write the sessions table
LiveNext ==
    \/ \E i \in Slots :
        \/ LoginSelectUser(i) \/ LoginSelectSession(i) \/ LoginDeleteSession(i)
        \/ LoginInsertSession(i)
        \/ DeleteUserSelectUser(i) \/ DeleteUserDeleteSession(i)
        \/ DeleteUserDeleteUser(i)
        \/ LogoutSelectUser(i) \/ LogoutDeleteSession(i)
        \/ Retire(i)
    \/ ClearSessionsStart
    \/ ClearSessionsDelete
    \/ Rebase

\* the timer fires when it is due (line 57), the store answers the DELETE
\* (line 52), time passes, and a finished exchange ends
LiveSpec ==
    /\ Init /\ [][LiveNext]_vars
    /\ WF_vars(ClearSessionsStart)
    /\ WF_vars(ClearSessionsDelete)
    /\ WF_vars(Rebase)
    /\ \A i \in Slots : WF_vars(Retire(i))

\* ---- properties ----

Ledger(r) == r.op \in {"deposit", "withdraw"}

\* C1: once no deposit or withdraw is in flight, every stored balance equals the
\* initial balance 0 plus the deposits minus the withdrawals answered with 200
NoLostUpdates ==
    (\A i \in Slots : ~(Ledger(req[i]) /\ InFlight(req[i])))
        => \A a \in accounts : a.balance = applied[a.user_id]

\* C2: getBalance answers 200 with a balance only if a session row (user_id, otp)
\* existed when the handler checked
NoBalanceWithoutSession ==
    \A i \in Slots :
        (req[i].op = "getBalance" /\ req[i].pc = "done" /\ req[i].status = 200)
            => req[i].rows > 0

\* a login has just answered 200
LoginAnswered(r) == r.op = "login" /\ r.pc = "done" /\ r.status = 200

\* C3 as stated: when a login has answered 200, no OTP that had a session row of
\* the same user when this login arrived (the OTP of the login before it) has a
\* session row any more, and the OTP just answered has one
SecondLoginSupersedes ==
    \A i \in Slots : LoginAnswered(req[i]) =>
        /\ \A o \in req[i].gPrev : SessionsMatching(req[i].user.id, o) = {}
        /\ SessionsMatching(req[i].user.id, req[i].genOtp) # {}

\* C3 as amended: when a login has answered 200, the OTP of the login before it
\* has no session row unless the new login drew the same code again, and the OTP
\* just answered has one
SecondLoginSupersedesDistinct ==
    \A i \in Slots : LoginAnswered(req[i]) =>
        /\ \A o \in req[i].gPrev \ {req[i].genOtp} :
                SessionsMatching(req[i].user.id, o) = {}
        /\ SessionsMatching(req[i].user.id, req[i].genOtp) # {}

\* C3 witness: a second login has answered an OTP different from the first one
SecondLoginAnswered ==
    \E i \in Slots :
        /\ LoginAnswered(req[i])
        /\ req[i].gPrev # {}
        /\ req[i].genOtp \notin req[i].gPrev

\* C4: no user has two session rows, and a login that passed the password check
\* of a user that still exists, with no store call failing, answers 200
SingleSessionLoginSucceeds ==
    /\ \A uid \in Ids : Cardinality(SessionsOf(uid)) <= 1
    /\ \A i \in Slots :
        (/\ req[i].op = "login" /\ req[i].pc = "done" /\ ~req[i].failed
         /\ req[i].user # NoUser /\ UserExists(req[i].user.id))
            => req[i].status = 200

\* C5: deleteUser deletes the user row only if its DELETE of the session row
\* (user_id, otp) found that row
DeleteUserNeedsSession ==
    \A i \in Slots :
        (/\ req[i].op = "deleteUser" /\ req[i].pc = "done"
         /\ req[i].status = 200 /\ req[i].rows > 0)
            => req[i].affected > 0

\* C6: a deleteUser that did not answer 200 has deleted no session row, and no
\* session or account row refers to a user that does not exist
DeleteUserAllOrNothing ==
    /\ \A i \in Slots :
        (req[i].op = "deleteUser" /\ Finished(req[i]) /\ req[i].status # 200)
            => req[i].affected = 0
    /\ \A s \in sessions : UserExists(s.user_id)
    /\ \A a \in accounts : UserExists(a.user_id)

\* C7: with no register in flight every user owns exactly one account
RegisterCreatesBoth ==
    (\A i \in Slots : ~(req[i].op = "register" /\ InFlight(req[i])))
        => \A u \in users : Cardinality(AccountsOf(u.id)) = 1

\* C8: a logout of an existing user whose DELETE matched no session row answers 404
LogoutMismatchNotFound ==
    \A i \in Slots :
        (/\ req[i].op = "logout" /\ req[i].pc = "done" /\ ~req[i].failed
         /\ req[i].user # NoUser /\ req[i].affected = 0)
            => req[i].status = 404

\* C9: after a logout has ended a user's session and until a login inserts a new
\* one, the user has no session row, and a deposit or withdraw that arrived with
\* the ended OTP never gets past the session check, so it never writes a balance
LogoutEndsSession ==
    /\ \A uid \in Ids : loggedOut[uid] # {} => SessionsOf(uid) = {}
    /\ \A i \in Slots :
        (Ledger(req[i]) /\ req[i].gStale)
            => /\ req[i].pc \notin {"selectBalance", "updateBalance"}
               /\ req[i].status # 200

\* C9 witness: a deposit or withdraw presenting a logged-out OTP was answered
\* 404 "Invalid session or OTP"
StaleOtpRejected ==
    \E i \in Slots :
        /\ Ledger(req[i]) /\ req[i].gStale
        /\ req[i].pc = "done" /\ req[i].status = 404
        /\ req[i].message = "Invalid session or OTP"

\* C10: a request one of whose store calls failed ends with a 500 response
FailureAnswered500 ==
    \A i \in Slots :
        (Finished(req[i]) /\ req[i].failed)
            => (req[i].pc = "done" /\ req[i].status = 500)

\* a clearSessions pass has just had its DELETE executed by the store
PassDeleted ==
    reaper.pc = "delete" /\ reaper'.pc = "timer" /\ nfail' = nfail

\* C11 as stated: when the DELETE of a pass has completed at time t, no session
\* older than t - TenMinutes remains and the pass removed no younger session
ReaperRemovesExpiredAtCompletion ==
    [][PassDeleted =>
        /\ \A s \in sessions' : ~(s.login_timestamp < now' - TenMinutes)
        /\ \A s \in sessions :
              ~(s.login_timestamp < now' - TenMinutes) => s \in sessions']_vars

\* C11 as amended: when the DELETE of a pass has completed, no session older than
\* the cutOff the pass computed when it started remains, and the pass removed no
\* session at or after that cutOff
ReaperRemovesExpiredAtCutOff ==
    [][PassDeleted =>
        /\ \A s \in sessions' : ~(s.login_timestamp < reaper.cutOff)
        /\ \A s \in sessions :
              ~(s.login_timestamp < reaper.cutOff) => s \in sessions']_vars

\* C11 witness: a pass has removed an expired session
PassClearedExpired ==
    reaper.pc = "timer" /\ reaper.cleared > 0

\* C12: every pass, failed or not, is followed by the next pass, passes recur
\* for ever, and every session row is eventually deleted
ReaperKeepsRunning ==
    /\ (reaper.pc = "delete") ~> (reaper.pc = "timer")
    /\ (reaper.pc = "timer") ~> (reaper.pc = "delete")
    /\ \A uid \in Ids : \A otp \in Otps :
          (SessionsMatching(uid, otp) # {}) ~> (SessionsMatching(uid, otp) = {})

\* C12 witness: a pass whose DELETE threw has armed the timer of the next pass
FailedPassArmedTimer ==
    reaper.pc = "timer" /\ reaper.cleared < 0

\* C13: a withdraw that read the balance a deposit of the same amount had
\* written, with no other write to the account in between, answers the balance
\* from before the deposit and leaves it stored
DepositWithdrawRoundTrip ==
    \A i \in Slots :
        (/\ req[i].op = "withdraw" /\ req[i].pc = "done" /\ req[i].status = 200
         /\ req[i].gRound # NoDeposit)
            => /\ req[i].result = req[i].gRound.before
               /\ \A a \in AccountsOf(req[i].user.id) :
                     a.balance = req[i].gRound.before

\* C15: a register whose username is taken is answered with a conflict (a 4xx
\* status) and leaves the users, accounts and sessions tables as they were
DuplicateRegisterConflict ==
    [][\A i \in Slots :
        (/\ req[i].op = "idle" /\ req'[i].op = "register"
         /\ ~UsernameFree(req'[i].username) /\ ~req'[i].failed)
            => /\ req'[i].pc = "done" /\ req'[i].status \in 400..499
               /\ users' = users /\ accounts' = accounts
               /\ sessions' = sessions]_vars

\* C14: a login with the password of a user that exists, with no store call
\* failing, answers 200, and the OTP it answers is the OTP of the user's one
\* session row
LoginReturnsLiveOtp ==
    \A i \in Slots :
        (/\ req[i].op = "login" /\ req[i].pc = "done" /\ ~req[i].failed
         /\ req[i].user # NoUser /\ UserExists(req[i].user.id))
            => /\ req[i].status = 200
               /\ SessionsOf(req[i].user.id) # {}
               /\ \A s \in SessionsOf(req[i].user.id) : s.otp = req[i].genOtp

\* C16: a login refused for its credentials, whether the username is unknown or
\* the password wrong, is answered 401 "Login failed." and leaves the sessions
\* table as it was
FailedLoginUniform ==
    [][\A i \in Slots :
        (/\ req[i].op = "idle" /\ req'[i].op = "login"
         /\ req'[i].pc = "done" /\ ~req'[i].failed)
            => /\ req'[i].status = 401
               /\ req'[i].message = "Login failed."
               /\ sessions' = sessions]_vars

\* C16 witness: a login with a wrong password for a user who holds a session
\* was answered 401, and the session row is still there
WrongPasswordKeepsSession ==
    \E i \in Slots :
        /\ req[i].op = "login" /\ req[i].pc = "done" /\ req[i].status = 401
        /\ ~UsernameFree(req[i].username)
        /\ LiveOtps(req[i].username) # {}

\* C17: a deposit or withdraw reaches the account only with its user resolved
\* and a session row (user_id, otp) found, and one answered for an unknown
\* username or for an OTP without a session row is answered with a failure and
\* leaves every balance as it was
LedgerGatedInOrder ==
    [][\A i \in Slots :
        /\ (Ledger(req'[i]) /\ req'[i].pc \in {"selectBalance", "updateBalance"})
              => (req'[i].user # NoUser /\ req'[i].rows > 0)
        /\ (/\ Ledger(req'[i]) /\ req'[i] # req[i] /\ req'[i].pc = "done"
            /\ (req'[i].user = NoUser \/ req'[i].rows = 0))
              => /\ req'[i].status \in 400..599
                 /\ accounts' = accounts]_vars

\* C17 witness: a deposit or withdraw presenting an OTP that never had a session
\* row was answered 404
UnknownOtpRejected ==
    \E i \in Slots :
        /\ Ledger(req[i]) /\ req[i].pc = "done" /\ req[i].status = 404
        /\ req[i].user # NoUser /\ req[i].rows = 0 /\ ~req[i].gStale

\* C18: when a deposit or withdraw has written the balance and answered 200, the
\* session row (user_id, otp) it presented still exists
BalanceWriteWithinSession ==
    \A i \in Slots :
        (Ledger(req[i]) /\ req[i].pc = "done" /\ req[i].status = 200)
            => SessionsMatching(req[i].user.id, req[i].otp) # {}

\* the handler of slot i takes a step
Steps(i) == req'[i] # req[i]

\* C19: the session check of a deposit or withdraw accepts the request exactly
\* when a session row (user_id, otp) exists, whatever its timestamp, and a
\* session row is removed only by a clearSessions pass, a logout, a login or a
\* deleteUser
SessionCheckIgnoresAge ==
    [][/\ \A i \in Slots :
            (/\ Ledger(req[i]) /\ req[i].pc = "selectSession"
             /\ Steps(i) /\ ~req'[i].failed)
                => (req'[i].pc = "selectBalance"
                        <=> SessionsMatching(req[i].user.id, req[i].otp) # {})
       /\ (sessions \ sessions' # {})
            => \/ reaper.pc = "delete" /\ reaper'.pc = "timer"
               \/ \E i \in Slots :
                    /\ Steps(i)
                    /\ req[i].op \in {"logout", "login", "deleteUser"}]_vars

\* C19 witness: a deposit or withdraw has passed the session check with a
\* session row that was older than ten minutes at the check
OldSessionAccepted ==
    \E i \in Slots :
        Ledger(req[i]) /\ req[i].pc = "selectBalance" /\ req[i].gOld

\* updatePassword of slot i takes a step
UpdatePasswordSteps(i) == Steps(i) /\ req'[i].op = "updatePassword"

\* updatePassword of slot i answers 200 in this step
PasswordUpdated(i) ==
    UpdatePasswordSteps(i) /\ req'[i].pc = "done" /\ req'[i].status = 200

\* a stored hash changes only in a step of an updatePassword that answers 200
HashChangesOnlyByUpdate ==
    \A u \in users : \A v \in users' :
        (u.id = v.id /\ u.password # v.password)
            => \E i \in Slots : PasswordUpdated(i)

\* C20: updatePassword answers 200 exactly when the user exists and the old
\* password verifies against the stored hash, no store call failing; it changes
\* a hash only then and never a session or a balance; after it answers 200 the
\* stored hash verifies the new password, and not the old one if they differ
UpdatePasswordOnlyPassword ==
    [][/\ HashChangesOnlyByUpdate
       /\ \A i \in Slots :
            /\ UpdatePasswordSteps(i)
                  => (sessions' = sessions /\ accounts' = accounts)
            /\ (UpdatePasswordSteps(i) /\ ~PasswordUpdated(i)) => users' = users
            /\ (/\ UpdatePasswordSteps(i) /\ Finished(req'[i]) /\ ~req'[i].failed
                /\ \E u \in users :
                      /\ u.username = req'[i].username
                      /\ bcryptCompare(req'[i].password, u.password))
                  => req'[i].status = 200
            /\ PasswordUpdated(i)
                  => /\ \E u \in users :
                          /\ u.id = req'[i].user.id
                          /\ bcryptCompare(req'[i].password, u.password)
                     /\ \A u \in users' : u.id = req'[i].user.id =>
                          /\ bcryptCompare(req'[i].newPassword, u.password)
                          /\ (req'[i].newPassword # req'[i].password
                                => ~bcryptCompare(req'[i].password, u.password))]_vars

====
